---- MODULE Spec2Model ----
(***************************************************************************)
(* Model of collect.py: one poll-and-publish run over the configured Kasa  *)
(* plugs and InfluxDB destinations, and the two device pollers.            *)
(*                                                                         *)
(* Python values are records [t, v].  t is the Python type ("int",         *)
(* "float", "bool", "none").  v of a float is a fixed-point numerator over *)
(* Scale (so 45.2 is 452000); v of an int is the integer itself; False is  *)
(* [t |-> "bool", v |-> 0].                                                *)
(***************************************************************************)
EXTENDS Integers, Sequences, FiniteSets, TLC

VARIABLES pc, exitCode, config, influxes, stats, start_time, now, di, si,
          points_buffer, pollLog, writes, reports, kasaCall, tapoCall

vars == <<pc, exitCode, config, influxes, stats, start_time, now, di, si,
          points_buffer, pollLog, writes, reports, kasaCall, tapoCall>>

mainVars == <<pc, exitCode, config, influxes, stats, start_time, now, di, si,
              points_buffer, pollLog, writes, reports>>

pollerVars == <<kasaCall, tapoCall>>

----------------------------------------------------------------------------
(* Bounds of the model *)

MaxDevices == 2
MaxSinks == 2
MaxClock == 2

(* Program constants *)

WhPerKWh == 1000
MwPerW == 1000
TapoMwPerW == 1000

Scale == 10 * 1000

----------------------------------------------------------------------------
(* Python values *)

PyInt(n) == [t |-> "int", v |-> n]
PyFloat(n) == [t |-> "float", v |-> n]
PyFalse == [t |-> "bool", v |-> 0]
PyNone == [t |-> "none", v |-> 0]

IsNumber(x) == x.t \in {"int", "float", "bool"}

(* x is False *)
IsFalse(x) == x.t = "bool" /\ x.v = 0

(* x == 0 ; Python compares numbers by value, and False == 0 *)
EqZero(x) == IsNumber(x) /\ x.v = 0

(* bool(x): the truth value of x in an if *)
Truthy(x) == x.t # "none" /\ x.v # 0

(* float(x), for a number x *)
ToFloat(x) == IF x.t = "float" THEN x ELSE PyFloat(x.v * Scale)

(* int(x), for a float x: truncation toward zero *)
FloatToInt(x) ==
    IF x.v >= 0 THEN PyInt(x.v \div Scale) ELSE PyInt(-((-x.v) \div Scale))

(* x * k, for a number x and an int literal k *)
MulInt(x, k) == IF x.t = "float" THEN PyFloat(x.v * k) ELSE PyInt(x.v * k)

(* x / k (true division), for a number x and an int literal k *)
DivInt(x, k) ==
    IF x.t = "float" THEN PyFloat(x.v \div k) ELSE PyFloat((x.v * Scale) \div k)

----------------------------------------------------------------------------
(* Devices and what they answer *)

DeviceName(k) == "plug" \o ToString(k)
SinkName(k) == "influx" \o ToString(k)

(* emeter_today in kWh, as python-kasa reports it: 0.0, 0.1234, 1.5 *)
EmeterTodayValues == {PyFloat(0), PyFloat(1234), PyFloat(15000)}

(* emeter_realtime["power_mw"]: 0, 45200 *)
PowerMwValues == {PyInt(0), PyInt(45200)}

(* update() raises; or it returns and emeter_today is None, or power_mw is
   absent from emeter_realtime, or both values are there *)
KasaResponses ==
    {[update |-> "raise", emeter_today |-> PyNone, power_mw |-> PyNone],
     [update |-> "ok", emeter_today |-> PyNone, power_mw |-> PyInt(45200)],
     [update |-> "ok", emeter_today |-> PyFloat(15000), power_mw |-> PyNone]}
    \cup [update : {"ok"}, emeter_today : EmeterTodayValues, power_mw : PowerMwValues]

Raised == [raised |-> TRUE, now_usage_w |-> PyNone, today_usage |-> PyNone]
Returned(w, t) == [raised |-> FALSE, now_usage_w |-> w, today_usage |-> t]

(* poll_kasa: update() is outside the try; the three reads are inside it *)
poll_kasa(resp) ==
    IF resp.update = "raise" THEN Raised
    ELSE IF resp.emeter_today.t = "none" \/ resp.power_mw.t = "none"
         THEN Returned(PyInt(0), PyInt(0))
         ELSE Returned(DivInt(resp.power_mw, MwPerW),
                       MulInt(resp.emeter_today, WhPerKWh))

(* What a Tapo plug answers: the step that raises, if any, and the usage_dict *)
TapoEnergyValues == {PyNone, PyInt(0), PyInt(1500)}
TapoPowerValues == {PyNone, PyInt(0), PyInt(45200)}

TapoResponses ==
    [fails : {"construct", "handshake", "login", "getEnergyUsage"},
     has_result : {FALSE}, today_energy : {PyNone}, current_power : {PyNone}]
    \cup {[fails |-> "none", has_result |-> FALSE, today_energy |-> PyNone,
           current_power |-> PyNone]}
    \cup [fails : {"none"}, has_result : {TRUE}, today_energy : TapoEnergyValues,
          current_power : TapoPowerValues]

(* poll_tapo: the four calls are inside the try; the reads of usage_dict are not *)
poll_tapo(resp) ==
    IF resp.fails # "none" THEN Returned(PyFalse, PyFalse)
    ELSE IF ~resp.has_result \/ resp.today_energy.t = "none"
            \/ resp.current_power.t = "none"
         THEN Raised
         ELSE Returned(DivInt(resp.current_power, TapoMwPerW), resp.today_energy)

----------------------------------------------------------------------------
(* stats: a dict in insertion order, as a sequence of entries with distinct names *)

HasKey(d, k) == \E n \in 1..Len(d) : d[n].name = k

DictSet(d, e) ==
    IF HasKey(d, e.name)
    THEN [n \in 1..Len(d) |-> IF d[n].name = e.name THEN e ELSE d[n]]
    ELSE Append(d, e)

(* Mutant of StatsEntry: the entry is stamped with the time its poll completed *)
StatsEntry_PollTime(name, res, t0) ==
    LET w == IF IsFalse(res.now_usage_w) THEN PyInt(0) ELSE res.now_usage_w
        u == IF EqZero(res.today_usage) THEN PyInt(1) ELSE res.today_usage
    IN [name |-> name, today_usage |-> u, now_usage_w |-> w, time |-> now']

(* the body of the device loop after a poll that returned *)
StatsEntry(name, res, t0) ==
    LET w == IF IsFalse(res.now_usage_w) THEN PyInt(0) ELSE res.now_usage_w
        u == IF EqZero(res.today_usage) THEN PyInt(1) ELSE res.today_usage
    IN [name |-> name, today_usage |-> u, now_usage_w |-> w, time |-> t0]

PowerPoint(e) ==
    [measurement |-> "Iotawatt", time |-> e.time, field |-> e.name,
     value |-> ToFloat(e.now_usage_w)]

EnergyPoint(e) ==
    [measurement |-> "Iotawatt", time |-> e.time, field |-> e.name \o "_Wh",
     value |-> FloatToInt(ToFloat(e.today_usage))]

(* Mutant of PointsOf: the energy point is appended without the test *)
PointsOf_EnergyAlways(e) == <<PowerPoint(e), EnergyPoint(e)>>

(* one iteration of the loop of buildPointsBuffer *)
PointsOf(e) ==
    IF Truthy(e.today_usage) THEN <<PowerPoint(e), EnergyPoint(e)>>
    ELSE <<PowerPoint(e)>>

RECURSIVE BuildFrom(_, _, _)
BuildFrom(points, n, buf) ==
    IF n > Len(points) THEN buf
    ELSE BuildFrom(points, n + 1, buf \o PointsOf(points[n]))

buildPointsBuffer(points) == BuildFrom(points, 1, <<>>)

----------------------------------------------------------------------------
(* main *)

Configs ==
    [devices : {[k \in 1..n |-> DeviceName(k)] : n \in 0..MaxDevices},
     influxdb : {[k \in 1..m |-> SinkName(k)] : m \in 0..MaxSinks}]

NoConfig == [devices |-> <<>>, influxdb |-> <<>>]

MainInit ==
    /\ pc = "load"
    /\ exitCode = -1
    /\ config = NoConfig
    /\ influxes = <<>>
    /\ stats = <<>>
    /\ start_time = 0
    /\ now = 0
    /\ di = 1
    /\ si = 1
    /\ points_buffer = <<>>
    /\ pollLog = <<>>
    /\ writes = <<>>
    /\ reports = <<>>

(* load_config returns a configuration *)
LoadConfigOk ==
    /\ pc = "load"
    /\ \E c \in Configs : config' = c
    /\ pc' = "clients"
    /\ UNCHANGED <<exitCode, influxes, stats, start_time, now, di, si,
                   points_buffer, pollLog, writes, reports>>

(* load_config returns False (YAML error) or an empty document, or open()
   raises: sys.exit(1), or the uncaught exception ends the process with 1 *)
LoadConfigFails ==
    /\ pc = "load"
    /\ pc' = "exited"
    /\ exitCode' = 1
    /\ UNCHANGED <<config, influxes, stats, start_time, now, di, si,
                   points_buffer, pollLog, writes, reports>>

(* the loop creating the InfluxDB clients, then stats = {} and start_time *)
CreateClients ==
    /\ pc = "clients"
    /\ influxes' = config.influxdb
    /\ stats' = <<>>
    /\ \E d \in 0..1 :
        /\ now + d <= MaxClock
        /\ now' = now + d
        /\ start_time' = now + d
    /\ di' = 1
    /\ pc' = "poll"
    /\ UNCHANGED <<exitCode, config, si, points_buffer, pollLog, writes, reports>>

(* stats after one iteration of the device loop *)
StatsAfterPoll(st, name, res, t0) ==
    IF res.raised THEN st ELSE DictSet(st, StatsEntry(name, res, t0))

(* Mutant of AfterPoll: the except handler leaves the loop *)
AfterPoll_Break(k, res) == IF res.raised THEN Len(config.devices) + 1 ELSE k + 1

(* the index of the next device: the except handler ends in continue *)
AfterPoll(k, res) == k + 1

(* one iteration of the loop over config["kasa"]["devices"] *)
PollKasa ==
    /\ pc = "poll"
    /\ di <= Len(config.devices)
    /\ \E resp \in KasaResponses, d \in 0..1 :
        /\ now + d <= MaxClock
        /\ now' = now + d
        /\ pollLog' = Append(pollLog, [name |-> config.devices[di], resp |-> resp,
                                      at |-> now + d])
        /\ stats' = StatsAfterPoll(stats, config.devices[di], poll_kasa(resp), start_time)
        /\ di' = AfterPoll(di, poll_kasa(resp))
    /\ UNCHANGED <<pc, exitCode, config, influxes, start_time, si, points_buffer,
                   writes, reports>>

(* Mutant of ShouldPublish: the batch is sent whatever its length *)
ShouldPublish_Always(buf) == TRUE

(* if len(points_buffer) > 0 *)
ShouldPublish(buf) == Len(buf) > 0

(* points_buffer = buildPointsBuffer(stats), and the test of its length *)
BuildPoints ==
    /\ pc = "poll"
    /\ di > Len(config.devices)
    /\ points_buffer' = buildPointsBuffer(stats)
    /\ si' = 1
    /\ pc' = IF ShouldPublish(buildPointsBuffer(stats)) THEN "publish" ELSE "return"
    /\ UNCHANGED <<exitCode, config, influxes, stats, start_time, now, di,
                   pollLog, writes, reports>>

(* Mutant of sendToInflux: the except branch returns True as well *)
sendToInflux_AlwaysTrue(outcome) == TRUE

(* sendToInflux: write_points inside a try; True, or False when it raised *)
sendToInflux(outcome) == outcome = "ok"

(* Mutant of SendToSink: write_points is called without the try, so that a
   write that raises ends the process *)
SendToSink_NoTry ==
    /\ pc = "publish"
    /\ si <= Len(influxes)
    /\ \E outcome \in {"ok", "raise"} :
        /\ writes' = Append(writes, [sink |-> influxes[si], batch |-> points_buffer,
                                    outcome |-> outcome])
        /\ IF outcome = "ok"
           THEN /\ reports' = Append(reports, [sink |-> influxes[si], ok |-> TRUE])
                /\ si' = si + 1
                /\ UNCHANGED <<pc, exitCode>>
           ELSE /\ pc' = "exited"
                /\ exitCode' = 1
                /\ UNCHANGED <<reports, si>>
    /\ UNCHANGED <<config, influxes, stats, start_time, now, di, points_buffer, pollLog>>

(* one iteration of the loop over influxes *)
SendToSink ==
    /\ pc = "publish"
    /\ si <= Len(influxes)
    /\ \E outcome \in {"ok", "raise"} :
        /\ writes' = Append(writes, [sink |-> influxes[si], batch |-> points_buffer,
                                    outcome |-> outcome])
        /\ reports' = Append(reports, [sink |-> influxes[si],
                                      ok |-> sendToInflux(outcome)])
    /\ si' = si + 1
    /\ UNCHANGED <<pc, exitCode, config, influxes, stats, start_time, now, di,
                   points_buffer, pollLog>>

PublishDone ==
    /\ pc = "publish"
    /\ si > Len(influxes)
    /\ pc' = "return"
    /\ UNCHANGED <<exitCode, config, influxes, stats, start_time, now, di, si,
                   points_buffer, pollLog, writes, reports>>

(* main returns; the interpreter exits with 0 *)
MainReturn ==
    /\ pc = "return"
    /\ pc' = "exited"
    /\ exitCode' = 0
    /\ UNCHANGED <<config, influxes, stats, start_time, now, di, si,
                   points_buffer, pollLog, writes, reports>>

NoCall == [called |-> FALSE]

Init == MainInit /\ kasaCall = NoCall /\ tapoCall = NoCall

Next ==
    \/ LoadConfigOk /\ UNCHANGED pollerVars
    \/ LoadConfigFails /\ UNCHANGED pollerVars
    \/ CreateClients /\ UNCHANGED pollerVars
    \/ PollKasa /\ UNCHANGED pollerVars
    \/ BuildPoints /\ UNCHANGED pollerVars
    \/ SendToSink /\ UNCHANGED pollerVars
    \/ PublishDone /\ UNCHANGED pollerVars
    \/ MainReturn /\ UNCHANGED pollerVars

Spec == Init /\ [][Next]_vars

(* The interpreter runs main to its end: every step that can be taken is taken *)
FairSpec == Spec /\ WF_vars(Next)

----------------------------------------------------------------------------
(* The pollers on their own: each call is given what the device answers *)

CallPollKasa ==
    /\ \E resp \in KasaResponses :
        kasaCall' = [called |-> TRUE, resp |-> resp, result |-> poll_kasa(resp)]
    /\ UNCHANGED tapoCall
    /\ UNCHANGED mainVars

CallPollTapo ==
    /\ \E resp \in TapoResponses :
        tapoCall' = [called |-> TRUE, resp |-> resp, result |-> poll_tapo(resp)]
    /\ UNCHANGED kasaCall
    /\ UNCHANGED mainVars

PollerNext == CallPollKasa \/ CallPollTapo

PollerSpec == Init /\ [][PollerNext]_vars

----------------------------------------------------------------------------
(* buildPointsBuffer on its own: called on any readings mapping *)

MaxEntries == 2

TodayUsageValues ==
    {PyInt(0), PyFloat(0), PyInt(1), PyFloat(4000), PyFloat(1230000), PyFloat(1234000)}

NowUsageValues == {PyInt(0), PyFloat(0), PyFloat(452000)}

Mappings ==
    UNION {[1..n -> [today_usage : TodayUsageValues, now_usage_w : NowUsageValues,
                     time : 0..1]] : n \in 0..MaxEntries}

Named(m) ==
    [k \in 1..Len(m) |-> [name |-> DeviceName(k), today_usage |-> m[k].today_usage,
                          now_usage_w |-> m[k].now_usage_w, time |-> m[k].time]]

BuildInit ==
    /\ pc = "build_call"
    /\ exitCode = -1
    /\ config = NoConfig
    /\ influxes = <<>>
    /\ \E m \in Mappings : stats = Named(m)
    /\ start_time = 0
    /\ now = 0
    /\ di = 1
    /\ si = 1
    /\ points_buffer = <<>>
    /\ pollLog = <<>>
    /\ writes = <<>>
    /\ reports = <<>>
    /\ kasaCall = NoCall
    /\ tapoCall = NoCall

CallBuild ==
    /\ pc = "build_call"
    /\ points_buffer' = buildPointsBuffer(stats)
    /\ pc' = "build_done"
    /\ UNCHANGED <<exitCode, config, influxes, stats, start_time, now, di, si,
                   pollLog, writes, reports, kasaCall, tapoCall>>

BuildSpec == BuildInit /\ [][CallBuild]_vars

----------------------------------------------------------------------------
(* Vocabulary of the properties *)

(* buildPointsBuffer has run in this run of main *)
Built == pc \in {"publish", "return"} \/ (pc = "exited" /\ exitCode = 0)

Completed == pc = "exited" /\ exitCode = 0

(* the device raised, or its answer lacks the energy or the power value *)
PollFailed(resp) ==
    resp.update = "raise" \/ resp.emeter_today.t = "none" \/ resp.power_mw.t = "none"

FieldsOf(name) == {name, name \o "_Wh"}

PointsFor(name) == {n \in 1..Len(points_buffer) : points_buffer[n].field \in FieldsOf(name)}

NamesPolled == [n \in 1..Len(pollLog) |-> pollLog[n].name]

NonZeroBefore(m, k) == Cardinality({n \in 1..(k - 1) : m[n].today_usage.v # 0})

(* C1: a device whose poll failed (raised, or answered without a usable
   power or energy value) has no point in the batch, neither under its name
   nor under its name followed by _Wh. *)
C1_FailedDeviceHasNoPoint ==
    Built =>
        \A n \in 1..Len(pollLog) :
            PollFailed(pollLog[n].resp) => PointsFor(pollLog[n].name) = {}

(* C2: after the polling phase stats has exactly one entry per configured
   device, whether its poll succeeded or failed. *)
C2_OneEntryPerDevice ==
    Built =>
        /\ Len(stats) = Len(config.devices)
        /\ {stats[n].name : n \in 1..Len(stats)}
             = {config.devices[n] : n \in 1..Len(config.devices)}

(* C3: main polls every configured device exactly once, in configuration
   order, whatever the earlier polls did: while the loop runs the devices
   polled are a prefix of the configuration and a next step (the next poll or
   the build) can be taken; once the loop is over all were polled; and the
   run goes on to build the batch and reach the publish step. *)
C3_EveryDevicePolledInOrder ==
    /\ pc = "poll" =>
        /\ di <= Len(config.devices) + 1
        /\ NamesPolled = SubSeq(config.devices, 1, di - 1)
        /\ ENABLED (PollKasa \/ BuildPoints)
    /\ Built =>
        /\ NamesPolled = config.devices
        /\ points_buffer = buildPointsBuffer(stats)
    /\ (pc = "exited" /\ pollLog # <<>>) => exitCode = 0
    /\ (Completed /\ points_buffer # <<>>) => Len(writes) = Len(influxes)

C3_Witness ==
    /\ Completed
    /\ Len(pollLog) >= 2
    /\ pollLog[1].resp.update = "raise"
    /\ ~PollFailed(pollLog[2].resp)
    /\ writes # <<>>

(* C4: with a non-empty batch every sink gets exactly one write attempt, in
   order, carrying the batch as built; the outcome reported for a sink is
   that sink's own outcome; a failed write neither stops the later writes
   nor is repeated. *)
C4_EverySinkWrittenOnce ==
    /\ Len(writes) <= Len(influxes)
    /\ Len(reports) = Len(writes)
    /\ pc = "publish" => Len(writes) = si - 1
    /\ \A n \in 1..Len(writes) :
        /\ writes[n].sink = influxes[n]
        /\ writes[n].batch = buildPointsBuffer(stats)
        /\ reports[n].sink = influxes[n]
        /\ reports[n].ok = (writes[n].outcome = "ok")
    /\ (pc = "publish" /\ si <= Len(influxes)) => ENABLED SendToSink
    /\ (Completed /\ points_buffer # <<>>) => Len(writes) = Len(influxes)

C4_Witness ==
    /\ Completed
    /\ points_buffer # <<>>
    /\ Len(writes) >= 2
    /\ writes[1].outcome = "raise"
    /\ writes[2].outcome = "ok"

(* C6: a device polled successfully whose energy-today is 0 has exactly one
   point in the batch, the power point; no _Wh point is published for it. *)
C6_ZeroEnergyNotPublished ==
    Built =>
        \A n \in 1..Len(pollLog) :
            (~PollFailed(pollLog[n].resp) /\ pollLog[n].resp.emeter_today.v = 0) =>
                /\ Cardinality(PointsFor(pollLog[n].name)) = 1
                /\ \A k \in PointsFor(pollLog[n].name) :
                    points_buffer[k].field = pollLog[n].name

(* C7: when the batch is empty no sink is written and no sink outcome is
   reported. *)
C7_EmptyBatchNoWrite ==
    points_buffer = <<>> => (writes = <<>> /\ reports = <<>>)

C7_Witness ==
    /\ Completed
    /\ points_buffer = <<>>
    /\ Len(pollLog) >= 1
    /\ Len(influxes) >= 1

(* C8: every point of the batch, as built and as written to each sink,
   carries the start time taken before the first poll, whenever the polls
   completed. *)
C8_OneTimestamp ==
    /\ \A n \in 1..Len(points_buffer) : points_buffer[n].time = start_time
    /\ \A n \in 1..Len(writes) : \A k \in 1..Len(writes[n].batch) :
        writes[n].batch[k].time = start_time
    /\ \A n \in 1..Len(pollLog) : start_time <= pollLog[n].at

C8_Witness ==
    /\ Completed
    /\ Len(pollLog) >= 2
    /\ start_time < pollLog[1].at
    /\ pollLog[1].at < pollLog[2].at
    /\ PointsFor(pollLog[1].name) # {}
    /\ PointsFor(pollLog[2].name) # {}
    /\ writes # <<>>

(* C9: once the configuration is loaded the run ends with exit code 0,
   whatever the polls and the writes did; exit code 1 is set only by the
   failed load, before any poll and any write. *)
C9_RunCompletes ==
    /\ (pc = "clients") ~> Completed
    /\ [](exitCode = 1 => (pollLog = <<>> /\ writes = <<>>))
    /\ [][exitCode' = 1 => (pc = "load" \/ exitCode = 1)]_vars

C9_Witness ==
    /\ Completed
    /\ \E n \in 1..Len(pollLog) : PollFailed(pollLog[n].resp)
    /\ \E n \in 1..Len(writes) : writes[n].outcome = "raise"

(* Device-level problems of the two plug families *)
KasaProblem(resp) == PollFailed(resp)

TapoProblem(resp) ==
    resp.fails # "none" \/ ~resp.has_result \/ resp.today_energy.t = "none"
        \/ resp.current_power.t = "none"

(* the call returned, and returned a failure value: (False, False), or the
   (0, 0) that poll_kasa falls back to *)
MarksFailure(result) ==
    /\ ~result.raised
    /\ \/ IsFalse(result.now_usage_w)
       \/ (EqZero(result.now_usage_w) /\ EqZero(result.today_usage))

(* C5: a poller never lets an exception out for a device problem: when the
   host is unreachable, a connection step fails or the answer is incomplete,
   the call returns, and returns the failure value rather than a reading. *)
C5_PollersNeverRaise ==
    /\ (kasaCall.called /\ KasaProblem(kasaCall.resp)) => MarksFailure(kasaCall.result)
    /\ (tapoCall.called /\ TapoProblem(tapoCall.resp)) => MarksFailure(tapoCall.result)

(* C10: the batch is the entries in insertion order, each giving its power
   point (also at power 0) followed, exactly when its energy is nonzero, by
   its _Wh point holding the energy truncated to an integer. *)
C10_BatchIsReference ==
    pc = "build_done" =>
        /\ Len(points_buffer) = Len(stats) + NonZeroBefore(stats, Len(stats) + 1)
        /\ \A k \in 1..Len(stats) :
            LET pos == k + NonZeroBefore(stats, k)
                e == stats[k]
                w == points_buffer[pos]
            IN /\ w.measurement = "Iotawatt"
               /\ w.field = e.name
               /\ w.time = e.time
               /\ w.value.t = "float"
               /\ w.value.v = IF e.now_usage_w.t = "float" THEN e.now_usage_w.v
                              ELSE e.now_usage_w.v * Scale
               /\ e.today_usage.v # 0 =>
                    LET h == points_buffer[pos + 1]
                        wh == IF e.today_usage.t = "float" THEN e.today_usage.v
                              ELSE e.today_usage.v * Scale
                    IN /\ h.measurement = "Iotawatt"
                       /\ h.field = e.name \o "_Wh"
                       /\ h.time = e.time
                       /\ h.value.t = "int"
                       /\ h.value.v * Scale <= wh
                       /\ wh < (h.value.v + 1) * Scale

C10_Witness ==
    /\ pc = "build_done"
    /\ Len(stats) >= 2
    /\ stats[1].today_usage = PyFloat(1234000)
    /\ stats[1].now_usage_w = PyInt(0)
    /\ stats[2].today_usage = PyFloat(0)
    /\ Len(points_buffer) = 3
    /\ points_buffer[2].value = PyInt(123)

====
